---- MODULE Spec2Model ----
(***************************************************************************)
(* beancount-sort (src/src/main.rs): a ledger file is read line by line,   *)
(* assembled into entries (find_entries), regrouped into sections and      *)
(* ordered by date (sort_entries) and written out (write_ledger_file).     *)
(*                                                                         *)
(* Text is a sequence of tokens.  A token is a lexeme of the line grammar  *)
(* the program's regular expressions look at: a date-shaped token, a word  *)
(* (a run of \w characters), one punctuation character, one space, or the  *)
(* line terminator "\n".  Two adjacent word tokens are one longer word.    *)
(* A NaiveDate is the integer yyyymmdd, which orders as NaiveDate does.    *)
(***************************************************************************)
EXTENDS Integers, Sequences, FiniteSets, TLC

VARIABLES
    fs,       \* the file system: path -> [exists, data], data a token stream
    args,     \* Cli: file, out, skipn, spaces
    pc,       \* position of main (or of the function under test)
    lines,    \* the lines the reader of ledger_file.file yields
    i,        \* number of lines find_entries has taken from the reader
    entries,  \* ledger_file.entries
    entry,    \* find_entries' local `entry` after the comment step (l.283)
    err,      \* the error main returns, if any
    call,     \* arguments of the function under test (function specifications)
    ret       \* its return value

vars == <<fs, args, pc, lines, i, entries, entry, err, call, ret>>

(***************************** bounds **************************************)
MaxLines == 3
MaxSkip == 2
MaxMainLines == 3
MaxMainSkip == 1
MaxEntries == 3

(************************** program constants ******************************)
SECTIONS == <<"Header", "Options", "Accounts", "Commodities", "Other Entries",
              "Prices", "Transactions">>
NDECO == 4
DECO == "€"
SentinelDate == 19900101

NL == "\n"

(***************************** sequences ***********************************)
Last(s) == s[Len(s)]
Front(s) == SubSeq(s, 1, Len(s) - 1)

RECURSIVE Repeat(_, _)
Repeat(tok, n) == IF n = 0 THEN <<>> ELSE <<tok>> \o Repeat(tok, n - 1)

(* BufRead::lines: the stream cut at every "\n"; a last line without a     *)
(* terminator is still a line, an empty rest after the last "\n" is not.   *)
RECURSIVE LineEnd(_, _)
LineEnd(s, k) == IF k > Len(s) \/ s[k] = NL THEN k ELSE LineEnd(s, k + 1)

RECURSIVE SplitFrom(_, _, _)
SplitFrom(s, k, acc) ==
    IF k > Len(s) THEN acc
    ELSE LET e == LineEnd(s, k) IN
         SplitFrom(s, e + 1, Append(acc, SubSeq(s, k, e - 1)))

SplitLines(s) == SplitFrom(s, 1, <<>>)

(****************************** lexemes ************************************)
DateTokens == {"2021-01-02", "2021-01-01", "1985-01-01", "2021-02-30"}
WordTokens == {"option", "commodity", "price", "open", "balance", "c", "x",
               "Header", "Options", "Accounts", "Commodities", "Other Entries",
               "Prices", "Transactions"}
Whitespace == {" ", "\t", NL}

(* NaiveDate::parse_from_str(date, "%Y-%m-%d"): 0 stands for its Err (the  *)
(* token has the shape of a date and names no day of the calendar).        *)
ParseDate(tok) ==
    CASE tok = "2021-01-02" -> 20210102
      [] tok = "2021-01-01" -> 20210101
      [] tok = "1985-01-01" -> 19850101
      [] OTHER -> 0

(* section.len(): the byte length of a section name *)
StrLen(section) ==
    CASE section = "Header" -> 6
      [] section = "Options" -> 7
      [] section = "Accounts" -> 8
      [] section = "Commodities" -> 11
      [] section = "Other Entries" -> 13
      [] section = "Prices" -> 6
      [] section = "Transactions" -> 12

(************************ get_line_type (l.154) ****************************)
re_date(line) == Len(line) >= 1 /\ line[1] \in DateTokens
re_option(line) == Len(line) >= 1 /\ line[1] = "option"
re_comment(line) == Len(line) >= 1 /\ line[1] = ";"
re_section(line) ==
    /\ Len(line) >= 1 + NDECO
    /\ line[1] = ";"
    /\ \A k \in 2..(1 + NDECO) : line[k] = DECO
re_indented(line) ==
    \E k \in 1..Len(line) :
        /\ \A j \in 1..k : line[j] = " "
        /\ k < Len(line)
        /\ line[k + 1] \notin Whitespace
re_empty(line) == Len(line) = 0

LineType(kind, date, n) == [kind |-> kind, date |-> date, n |-> n]

get_line_type(line, n) ==
    IF re_date(line) THEN
        IF ParseDate(line[1]) = 0 THEN LineType("DateParseError", 0, n)
        ELSE LineType("Date", ParseDate(line[1]), n)
    ELSE IF re_option(line) THEN LineType("Option", 0, n)
    ELSE IF re_section(line) THEN LineType("Section", 0, n)
    ELSE IF re_comment(line) THEN LineType("Comment", 0, n)
    ELSE IF re_indented(line) THEN LineType("Indent", 0, n)
    ELSE IF re_empty(line) THEN LineType("Empty", 0, n)
    ELSE LineType("Unclassifiable", 0, n)

(********************* construct_dated_entry (l.189) ***********************)
Entry(content, date, entry_type) ==
    [content |-> content, date |-> date, entry_type |-> entry_type]

NoEntry == Entry(<<>>, 0, "None")

(* the capture group (\w+|\*|!) at token k: one of * and !, or the whole   *)
(* run of word tokens that starts there                                    *)
RECURSIVE WordRun(_, _)
WordRun(line, k) ==
    IF k <= Len(line) /\ line[k] \in WordTokens
    THEN <<line[k]>> \o WordRun(line, k + 1)
    ELSE <<>>

re_directive(line) ==
    /\ Len(line) >= 3
    /\ line[1] \in DateTokens
    /\ line[2] = " "
    /\ line[3] \in WordTokens \cup {"*", "!"}

directive_string(line) ==
    IF line[3] \in {"*", "!"} THEN <<line[3]>> ELSE WordRun(line, 3)

construct_dated_entry_reread(line, date) ==
    IF ~re_directive(line) THEN [ok |-> FALSE, entry |-> NoEntry]
    ELSE LET d == directive_string(line)
             own == ParseDate(line[1])
         IN
         [ok |-> TRUE,
          entry |->
            CASE d \in {<<"*">>, <<"!">>} -> Entry(line, own, "Transaction")
              [] d = <<"commodity">> -> Entry(line, own, "Commodity")
              [] d = <<"price">> -> Entry(line, own, "Price")
              [] d = <<"open">> -> Entry(line, own, "Account")
              [] OTHER -> Entry(line, own, "OtherEntry")]

construct_dated_entry(line, date) ==
    IF ~re_directive(line) THEN [ok |-> FALSE, entry |-> NoEntry]
    ELSE LET d == directive_string(line) IN
         [ok |-> TRUE,
          entry |->
            CASE d \in {<<"*">>, <<"!">>} -> Entry(line, date, "Transaction")
              [] d = <<"commodity">> -> Entry(line, date, "Commodity")
              [] d = <<"price">> -> Entry(line, date, "Price")
              [] d = <<"open">> -> Entry(line, date, "Account")
              [] OTHER -> Entry(line, date, "OtherEntry")]

(************************* find_entries (l.226) ****************************)
NoErr == [kind |-> "None", line |-> 0]
Error(kind, n) == [kind |-> kind, line |-> n]

(* l.234-238: a skipped line, kept verbatim *)
HeaderEntry_classified(line) ==
    Entry(line, SentinelDate,
          IF get_line_type(line, 0).kind = "Comment" THEN "Comment" ELSE "Header")

HeaderEntry(line) == Entry(line, SentinelDate, "Header")

(* l.243-244: idx is the index enumerate() gives the line, from 0 *)
LineNumber_noskip(idx, n_skip) == idx + 1

LineNumber(idx, n_skip) == (idx + 1) + n_skip

(* l.248-273: the entry made from a classified line; "continue" for the    *)
(* Section and Empty lines, which make none                                *)
Candidate(line, line_type) ==
    CASE line_type.kind = "Date" ->
            LET c == construct_dated_entry(line, line_type.date) IN
            IF c.ok THEN [status |-> "entry", entry |-> c.entry]
            ELSE [status |-> "MissingDirective", entry |-> NoEntry]
      [] line_type.kind = "Option" ->
            [status |-> "entry", entry |-> Entry(line, SentinelDate, "Option")]
      [] line_type.kind = "Comment" ->
            [status |-> "entry", entry |-> Entry(line, SentinelDate, "Comment")]
      [] line_type.kind = "Indent" ->
            [status |-> "entry", entry |-> Entry(line, SentinelDate, "Indented")]
      [] line_type.kind \in {"Section", "Empty"} ->
            [status |-> "continue", entry |-> NoEntry]
      [] OTHER -> [status |-> line_type.kind, entry |-> NoEntry]

(* l.275-283: a Comment entry at the tail is popped and put in front of    *)
(* the new entry's content                                                 *)
HasTailComment(es) == es # <<>> /\ Last(es).entry_type = "Comment"

AbsorbComment_keep(es, e) == [entries |-> es, entry |-> e]

AbsorbComment_after(es, e) ==
    IF HasTailComment(es)
    THEN [entries |-> Front(es),
          entry |-> [e EXCEPT !.content = e.content \o <<NL>> \o Last(es).content]]
    ELSE [entries |-> es, entry |-> e]

AbsorbComment(es, e) ==
    IF HasTailComment(es)
    THEN [entries |-> Front(es),
          entry |-> [e EXCEPT !.content = Last(es).content \o <<NL>> \o e.content]]
    ELSE [entries |-> es, entry |-> e]

(* l.292-297: an indented line joins the multi-line entry before it *)
MergeIndented_own(last_entry, e) ==
    Entry(last_entry.content \o <<NL>> \o e.content, e.date, last_entry.entry_type)

MergeIndented(last_entry, e) ==
    Entry(last_entry.content \o <<NL>> \o e.content, last_entry.date,
          last_entry.entry_type)

IsMultiLine(last_entry) == last_entry.entry_type \in {"Transaction", "Commodity"}

(* l.242-309: one iteration of the loop over the remaining lines *)
Step(status, es, e, n) ==
    [status |-> status, entries |-> es, entry |-> e,
     err |-> IF status \in {"continue", "pushed"} THEN NoErr ELSE Error(status, n)]

LoopBody(es, line, idx, n_skip) ==
    LET n == LineNumber(idx, n_skip)
        c == Candidate(line, get_line_type(line, n))
    IN  IF c.status = "continue" THEN Step("continue", es, NoEntry, n)
        ELSE IF c.status # "entry" THEN Step(c.status, <<>>, NoEntry, n)
        ELSE LET a == AbsorbComment(es, c.entry) IN
             IF a.entry.entry_type = "Indented" THEN
                 IF a.entries = <<>> THEN Step("MisplacedIndent", <<>>, a.entry, n)
                 ELSE IF IsMultiLine(Last(a.entries))
                 THEN Step("pushed",
                           Append(Front(a.entries),
                                  MergeIndented(Last(a.entries), a.entry)),
                           a.entry, n)
                 ELSE Step("MisplacedIndent", <<>>, a.entry, n)
             ELSE Step("pushed", Append(a.entries, a.entry), a.entry, n)

(* l.226-311: the whole function, as main's second run applies it *)
RECURSIVE find_entries_from(_, _, _, _)
find_entries_from(ls, k, es, n_skip) ==
    IF k < n_skip THEN
        IF k < Len(ls)
        THEN find_entries_from(ls, k + 1, Append(es, HeaderEntry(ls[k + 1])), n_skip)
        ELSE [ok |-> FALSE, entries |-> <<>>]
    ELSE IF k < Len(ls) THEN
        LET s == LoopBody(es, ls[k + 1], k - n_skip, n_skip) IN
        IF s.err = NoErr THEN find_entries_from(ls, k + 1, s.entries, n_skip)
        ELSE [ok |-> FALSE, entries |-> <<>>]
    ELSE [ok |-> TRUE, entries |-> es]

find_entries(ls, n_skip) == find_entries_from(ls, 0, <<>>, n_skip)

(********************** get_section_variant (l.313) ************************)
get_section_variant_swapped(section) ==
    CASE section = "Accounts" -> "Option"
      [] section = "Options" -> "Account"
      [] section = "Commodities" -> "Commodity"
      [] section = "Other Entries" -> "OtherEntry"
      [] section = "Prices" -> "Price"
      [] section = "Transactions" -> "Transaction"
      [] section = "Header" -> "Header"
      [] OTHER -> "Err"

get_section_variant(section) ==
    CASE section = "Accounts" -> "Account"
      [] section = "Options" -> "Option"
      [] section = "Commodities" -> "Commodity"
      [] section = "Other Entries" -> "OtherEntry"
      [] section = "Prices" -> "Price"
      [] section = "Transactions" -> "Transaction"
      [] section = "Header" -> "Header"
      [] OTHER -> "Err"

(************************* sort_entries (l.329) ****************************)
(* l.330: Vec::sort_by_key is a stable sort *)
RECURSIVE InsertByDate_unstable(_, _)
InsertByDate_unstable(sorted, e) ==
    IF sorted = <<>> THEN <<e>>
    ELSE IF Last(sorted).date < e.date THEN Append(sorted, e)
    ELSE Append(InsertByDate_unstable(Front(sorted), e), Last(sorted))

RECURSIVE InsertByDate(_, _)
InsertByDate(sorted, e) ==
    IF sorted = <<>> THEN <<e>>
    ELSE IF Last(sorted).date <= e.date THEN Append(sorted, e)
    ELSE Append(InsertByDate(Front(sorted), e), Last(sorted))

RECURSIVE sort_by_key(_)
sort_by_key(es) ==
    IF es = <<>> THEN <<>> ELSE InsertByDate(sort_by_key(Front(es)), Last(es))

(* l.336: every section but Header gets a heading *)
HasHeading(section) == section # "Header"

(* l.337-352 *)
section_string_short(section) ==
    LET deco == Repeat(DECO, NDECO - 1)
        bar == <<";">> \o deco \o Repeat(DECO, StrLen(section)) \o deco
    IN  bar \o <<NL>> \o <<";">> \o deco \o <<section>> \o deco \o <<NL>> \o bar

section_string(section) ==
    LET deco == Repeat(DECO, NDECO)
        bar == <<";">> \o deco \o Repeat(DECO, StrLen(section)) \o deco
    IN  bar \o <<NL>> \o <<";">> \o deco \o <<section>> \o deco \o <<NL>> \o bar

(* l.361-364 *)
RECURSIVE FilterKind(_, _)
FilterKind(es, kind) ==
    IF es = <<>> THEN <<>>
    ELSE LET rest == FilterKind(Front(es), kind) IN
         IF Last(es).entry_type = kind THEN Append(rest, Last(es)) ELSE rest

(* l.333-365: the loop over SECTIONS, from section k on *)
RECURSIVE SectionLoop(_, _)
SectionLoop(sorted, k) ==
    IF k > Len(SECTIONS) THEN [ok |-> TRUE, entries |-> <<>>]
    ELSE LET section == SECTIONS[k]
             heading == IF HasHeading(section)
                        THEN <<Entry(section_string(section), SentinelDate, "Section")>>
                        ELSE <<>>
             variant == get_section_variant(section)
         IN  IF variant = "Err" THEN [ok |-> FALSE, entries |-> <<>>]
             ELSE LET rest == SectionLoop(sorted, k + 1) IN
                  [ok |-> rest.ok,
                   entries |-> heading \o FilterKind(sorted, variant) \o rest.entries]

sort_entries(es) == SectionLoop(sort_by_key(es), 1)

(******************** write_ledger_file (l.66) *****************************)
NoFile == [exists |-> FALSE, data |-> <<>>]
File(data) == [exists |-> TRUE, data |-> data]

(* l.73-82: writeln! of every entry, and an empty line after it on --spaces *)
RECURSIVE Rendered(_, _)
Rendered(es, spaces) ==
    IF es = <<>> THEN <<>>
    ELSE Rendered(Front(es), spaces) \o Last(es).content \o <<NL>>
         \o (IF spaces THEN <<NL>> ELSE <<>>)

(* l.69-72: an existing file is removed, then the path is opened to append *)
Opened(files, path) ==
    LET removed == IF files[path].exists THEN [files EXCEPT ![path] = NoFile]
                   ELSE files
    IN  File(removed[path].data)

write_ledger_file(files, es, path, spaces) ==
    [files EXCEPT ![path] = File(Opened(files, path).data \o Rendered(es, spaces))]

(************************ backup_file (l.134) ******************************)
Path(stem, ext) == [stem |-> stem, ext |-> ext]

BackupPath(path) == Path(path.stem \o <<"_backup">>, path.ext)

SrcPath == Path(<<"ledger">>, "beancount")
BakPath == Path(<<"ledger", "_backup">>, "beancount")
NewPath == Path(<<"sorted">>, "beancount")
Paths == {SrcPath, BakPath, NewPath}

(******************************* main **************************************)
NoCall == [fn |-> "none"]
NoRet == [ok |-> FALSE, entries |-> <<>>]

(* l.374: read_file opens the source; the reader yields its lines *)
ReadFile ==
    /\ pc = "read_file"
    /\ IF fs[args.file].exists
       THEN /\ lines' = SplitLines(fs[args.file].data)
            /\ pc' = "backup_file"
            /\ err' = NoErr
       ELSE /\ lines' = lines
            /\ pc' = "failed"
            /\ err' = Error("Open", 0)
    /\ UNCHANGED <<fs, args, i, entries, entry, call, ret>>

(* l.375: std::fs::copy of the source to <stem>_backup.<ext> *)
BackupFile ==
    /\ pc = "backup_file"
    /\ fs' = [fs EXCEPT ![BackupPath(args.file)] = File(fs[args.file].data)]
    /\ pc' = "find_entries"
    /\ UNCHANGED <<args, lines, i, entries, entry, err, call, ret>>

(* l.230-240: one iteration of the loop over the skipped lines *)
SkipLine ==
    /\ pc = "find_entries"
    /\ i < args.skipn
    /\ IF i < Len(lines)
       THEN /\ entries' = Append(entries, HeaderEntry(lines[i + 1]))
            /\ i' = i + 1
            /\ pc' = pc
            /\ err' = err
       ELSE /\ entries' = <<>>
            /\ i' = i
            /\ pc' = "failed"
            /\ err' = Error("InsufficientLines", 0)
    /\ UNCHANGED <<fs, args, lines, entry, call, ret>>

(* l.242-309: one iteration of the loop over the other lines *)
ProcessLine ==
    /\ pc = "find_entries"
    /\ i >= args.skipn
    /\ i < Len(lines)
    /\ LET s == LoopBody(entries, lines[i + 1], i - args.skipn, args.skipn) IN
       /\ entries' = s.entries
       /\ entry' = s.entry
       /\ err' = s.err
       /\ pc' = IF s.err = NoErr THEN pc ELSE "failed"
    /\ i' = i + 1
    /\ UNCHANGED <<fs, args, lines, call, ret>>

(* l.310, l.377: find_entries returns the list and main sorts it *)
SortEntries ==
    /\ pc = "find_entries"
    /\ i >= args.skipn
    /\ i = Len(lines)
    /\ LET s == sort_entries(entries) IN
       IF s.ok
       THEN entries' = s.entries /\ pc' = "write_ledger_file" /\ err' = err
       ELSE entries' = <<>> /\ pc' = "failed" /\ err' = Error("UnknownSection", 0)
    /\ entry' = NoEntry
    /\ UNCHANGED <<fs, args, lines, i, call, ret>>

(* l.378 *)
WriteLedgerFile_early ==
    /\ pc \in {"find_entries", "write_ledger_file"}
    /\ fs' = write_ledger_file(fs, entries, args.out, args.spaces)
    /\ pc' = "done"
    /\ UNCHANGED <<args, lines, i, entries, entry, err, call, ret>>

WriteLedgerFile ==
    /\ pc = "write_ledger_file"
    /\ fs' = write_ledger_file(fs, entries, args.out, args.spaces)
    /\ pc' = "done"
    /\ UNCHANGED <<args, lines, i, entries, entry, err, call, ret>>

Next == ReadFile \/ BackupFile \/ SkipLine \/ ProcessLine \/ SortEntries
        \/ WriteLedgerFile

(**************************** input files **********************************)
TxnLate == <<"2021-01-02", " ", "*">>
TxnEarly == <<"1985-01-01", " ", "!">>
CommodityLine == <<"2021-01-01", " ", "commodity">>
PriceLine == <<"2021-01-01", " ", "price">>
OptionLine == <<"option">>
CommentLine == <<";", "c">>
IndentLine == <<" ", "x">>
EmptyLine == <<>>
SectionLine == <<";", "€", "€", "€", "€">>
BadLine == <<"x">>
NoDirectiveLine == <<"2021-01-01">>
BadDateLine == <<"2021-02-30", " ", "*">>

LineSet == {TxnLate, TxnEarly, CommodityLine, PriceLine, OptionLine, CommentLine,
            IndentLine, EmptyLine, SectionLine, BadLine, NoDirectiveLine}
MainLineSet == {TxnLate, TxnEarly, CommodityLine, OptionLine, CommentLine,
                IndentLine, SectionLine, BadDateLine}

SeqsUpTo(S, n) == UNION {[1..k -> S] : k \in 0..n}

RECURSIVE JoinLines(_)
JoinLines(ls) ==
    IF ls = <<>> THEN <<>> ELSE JoinLines(Front(ls)) \o Last(ls) \o <<NL>>

StartMain(ls, out, skipn, spaces) ==
    /\ fs = [p \in Paths |-> IF p = SrcPath THEN File(JoinLines(ls)) ELSE NoFile]
    /\ args = [file |-> SrcPath, out |-> out, skipn |-> skipn, spaces |-> spaces]
    /\ pc = "read_file"
    /\ lines = <<>>
    /\ i = 0
    /\ entries = <<>>
    /\ entry = NoEntry
    /\ err = NoErr
    /\ call = NoCall
    /\ ret = NoRet

(* the assembly and the sort, on every file of up to MaxLines lines *)
Init ==
    \E ls \in SeqsUpTo(LineSet, MaxLines), skipn \in 0..MaxSkip :
        StartMain(ls, NewPath, skipn, FALSE)

Spec == Init /\ [][Next]_vars

(* main with every destination and both settings of --spaces *)
InitMain ==
    \E ls \in SeqsUpTo(MainLineSet, MaxMainLines), out \in Paths,
       skipn \in 0..MaxMainSkip, spaces \in BOOLEAN :
        StartMain(ls, out, skipn, spaces)

SpecMain == InitMain /\ [][Next]_vars

(****************** sort_entries on arbitrary entry lists ******************)
SortDates == {20210101, 20210102}
SortKinds == {"Header", "Option", "Account", "Commodity", "OtherEntry", "Price",
              "Transaction", "Comment"}
SortEntrySet ==
    {Entry(<<"x">>, d, k) : d \in SortDates, k \in SortKinds}
        \cup {Entry(<<"c">>, d, "Option") : d \in SortDates}

InitSort ==
    /\ \E es \in SeqsUpTo(SortEntrySet, MaxEntries) :
          call = [fn |-> "sort_entries", entries |-> es]
    /\ pc = "call"
    /\ ret = NoRet
    /\ fs = [p \in Paths |-> NoFile]
    /\ args = [file |-> SrcPath, out |-> NewPath, skipn |-> 0, spaces |-> FALSE]
    /\ lines = <<>>
    /\ i = 0
    /\ entries = <<>>
    /\ entry = NoEntry
    /\ err = NoErr

CallSortEntries ==
    /\ pc = "call"
    /\ call.fn = "sort_entries"
    /\ ret' = sort_entries(call.entries)
    /\ pc' = "returned"
    /\ UNCHANGED <<fs, args, lines, i, entries, entry, err, call>>

NextSort == CallSortEntries

SpecSort == InitSort /\ [][NextSort]_vars

(************* construct_dated_entry on date-prefixed lines ****************)
ValidDateTokens == {"2021-01-02", "2021-01-01", "1985-01-01"}
DirectiveTails ==
    {<<>>, <<" ">>, <<" ", "*">>, <<" ", "!">>, <<" ", "commodity">>,
     <<" ", "price">>, <<" ", "open">>, <<" ", "balance">>,
     <<" ", "open", "x">>, <<" ", "commodity", " ", "x">>, <<" ", "price", "c">>,
     <<" ", " ", "*">>, <<"*">>, <<" ", ";">>, <<" ", "*", "*">>}
DatedLines == {<<d>> \o t : d \in ValidDateTokens, t \in DirectiveTails}
SuppliedDates == {19850101, 20210101, 20210102}

InitDated ==
    /\ \E line \in DatedLines, date \in SuppliedDates :
          call = [fn |-> "construct_dated_entry", line |-> line, date |-> date]
    /\ pc = "call"
    /\ ret = [ok |-> FALSE, entry |-> NoEntry]
    /\ fs = [p \in Paths |-> NoFile]
    /\ args = [file |-> SrcPath, out |-> NewPath, skipn |-> 0, spaces |-> FALSE]
    /\ lines = <<>>
    /\ i = 0
    /\ entries = <<>>
    /\ entry = NoEntry
    /\ err = NoErr

CallConstructDatedEntry ==
    /\ pc = "call"
    /\ call.fn = "construct_dated_entry"
    /\ ret' = construct_dated_entry(call.line, call.date)
    /\ pc' = "returned"
    /\ UNCHANGED <<fs, args, lines, i, entries, entry, err, call>>

NextDated == CallConstructDatedEntry

SpecDated == InitDated /\ [][NextDated]_vars

(***************************************************************************)
(*                              properties                                 *)
(***************************************************************************)
Range(s) == {s[k] : k \in 1..Len(s)}
Count(e, s) == Cardinality({k \in 1..Len(s) : s[k] = e})

(* the kind get_line_type gives line k of the file *)
Class(k) == get_line_type(lines[k], k).kind

(* a content cut at every "\n": n separators make n + 1 lines *)
RECURSIVE CutFrom(_, _, _, _)
CutFrom(s, k, cur, acc) ==
    IF k > Len(s) THEN Append(acc, cur)
    ELSE IF s[k] = NL THEN CutFrom(s, k + 1, <<>>, Append(acc, cur))
    ELSE CutFrom(s, k + 1, Append(cur, s[k]), acc)

ContentLines(content) == CutFrom(content, 1, <<>>, <<>>)

RECURSIVE Flatten(_)
Flatten(es) ==
    IF es = <<>> THEN <<>>
    ELSE Flatten(Front(es)) \o ContentLines(Last(es).content)

(* the first k lines of the file without the Section and Empty lines that  *)
(* come after the skipped ones                                             *)
RECURSIVE KeptLines(_)
KeptLines(k) ==
    IF k = 0 THEN <<>>
    ELSE IF k > args.skipn /\ Class(k) \in {"Section", "Empty"} THEN KeptLines(k - 1)
    ELSE Append(KeptLines(k - 1), lines[k])

(* C9: while find_entries runs, the contents of the entry list, cut at     *)
(* "\n" and concatenated in list order, are exactly the lines read so far  *)
(* in file order, less the Section and Empty lines after the skipped ones. *)
C9_NoLineLost ==
    pc = "find_entries" => Flatten(entries) = KeptLines(i)

C9_Witness ==
    /\ pc = "find_entries"
    /\ args.skipn = 0
    /\ lines = <<TxnLate, CommentLine, IndentLine>>
    /\ i = 3
    /\ Len(entries) = 1

(* C7: the first skipn lines are, one each and in file order, the first    *)
(* skipn entries, of kind Header, with the sentinel date and the line as   *)
(* content, whatever the line looks like and whatever follows; after the   *)
(* sort they are still the first skipn entries; a file with fewer than     *)
(* skipn lines makes find_entries fail.                                    *)
HeadersInFront ==
    /\ Len(entries) >= args.skipn
    /\ \A k \in 1..args.skipn :
          entries[k] = [content |-> lines[k], date |-> 19900101,
                        entry_type |-> "Header"]

C7_SkippedLines ==
    /\ (pc = "find_entries" /\ i >= args.skipn) => HeadersInFront
    /\ pc \in {"write_ledger_file", "done"} =>
          Len(lines) >= args.skipn /\ HeadersInFront
    /\ (pc = "failed" /\ Len(lines) < args.skipn) => err.kind = "InsufficientLines"

C7_Witness ==
    /\ pc = "write_ledger_file"
    /\ args.skipn = 2
    /\ lines = <<CommentLine, EmptyLine, TxnEarly>>
    /\ entries[Len(entries)].date < 19900101

(* the place of a kind in the fixed section order *)
SectionIndex(kind) ==
    CASE kind = "Header" -> 1
      [] kind = "Option" -> 2
      [] kind = "Account" -> 3
      [] kind = "Commodity" -> 4
      [] kind = "OtherEntry" -> 5
      [] kind = "Price" -> 6
      [] kind = "Transaction" -> 7
      [] OTHER -> 0

NoHeadings(es) == SelectSeq(es, LAMBDA e : e.entry_type # "Section")
OfKindAndDate(es, kind, date) ==
    SelectSeq(es, LAMBDA e : e.entry_type = kind /\ e.date = date)

(* C1: sort_entries returns, headings aside, the entries in section order; *)
(* in one section in ascending date order; entries of one section and one  *)
(* date in the order the input had them.                                   *)
C1_SectionThenDateStable ==
    (pc = "returned" /\ call.fn = "sort_entries") =>
        LET out == NoHeadings(ret.entries) IN
        /\ ret.ok
        /\ \A a, b \in 1..Len(out) :
              a < b =>
                /\ SectionIndex(out[a].entry_type) <= SectionIndex(out[b].entry_type)
                /\ out[a].entry_type = out[b].entry_type => out[a].date <= out[b].date
        /\ \A e \in Range(call.entries) :
              SectionIndex(e.entry_type) # 0 =>
                OfKindAndDate(out, e.entry_type, e.date)
                  = OfKindAndDate(call.entries, e.entry_type, e.date)

C1_Witness ==
    /\ pc = "returned"
    /\ call.fn = "sort_entries"
    /\ call.entries = <<Entry(<<"x">>, 20210101, "Transaction"),
                        Entry(<<"x">>, 20210102, "Option"),
                        Entry(<<"c">>, 20210102, "Option")>>
    /\ NoHeadings(ret.entries) = <<call.entries[2], call.entries[3], call.entries[1]>>

(* C8: construct_dated_entry fails exactly when no keyword follows the     *)
(* date and one space; otherwise the entry has the line as content, the    *)
(* supplied date, and the kind of its keyword.                             *)
KeywordIs(line, word) ==
    line[3] = word /\ (Len(line) = 3 \/ line[4] \notin WordTokens)

C8_DatedEntry ==
    (pc = "returned" /\ call.fn = "construct_dated_entry") =>
        LET line == call.line
            keyword == /\ Len(line) >= 3
                       /\ line[2] = " "
                       /\ line[3] \in WordTokens \cup {"*", "!"}
        IN  /\ ret.ok <=> keyword
            /\ ret.ok =>
                 /\ ret.entry.content = line
                 /\ ret.entry.date = call.date
                 /\ ret.entry.entry_type =
                      CASE line[3] \in {"*", "!"} -> "Transaction"
                        [] KeywordIs(line, "commodity") -> "Commodity"
                        [] KeywordIs(line, "price") -> "Price"
                        [] KeywordIs(line, "open") -> "Account"
                        [] OTHER -> "OtherEntry"

C8_Witness ==
    /\ pc = "returned"
    /\ call.fn = "construct_dated_entry"
    /\ call.line = <<"2021-01-01", " ", "open">>
    /\ call.date = 19850101
    /\ ret.ok
    /\ ret.entry.entry_type = "Account"

(* a step of find_entries' loop over the classified lines *)
LoopStep == pc = "find_entries" /\ i >= args.skipn /\ i' = i + 1

(* C5: a step of the loop ends in the misplaced-indent error exactly when  *)
(* its line is an Indent line and the list, less a Comment entry at its    *)
(* tail, is empty or ends with an entry that is neither Transaction nor    *)
(* Commodity; no list is returned, and the error names the 1-based place   *)
(* of the line in the file.                                                *)
C5_MisplacedIndent ==
    [][LoopStep =>
        LET tail == IF entries # <<>> /\ Last(entries).entry_type = "Comment"
                    THEN Front(entries) ELSE entries
            misplaced ==
                /\ Class(i + 1) = "Indent"
                /\ \/ tail = <<>>
                   \/ Last(tail).entry_type \notin {"Transaction", "Commodity"}
        IN  /\ err'.kind = "MisplacedIndent" <=> misplaced
            /\ misplaced => pc' = "failed" /\ entries' = <<>> /\ err'.line = i + 1
    ]_vars

C5_Witness ==
    /\ pc = "failed"
    /\ err = [kind |-> "MisplacedIndent", line |-> 3]
    /\ args.skipn = 1
    /\ lines = <<TxnLate, SectionLine, IndentLine>>

(* the kind and date of the entry a line makes by itself *)
OwnKind(line) ==
    CASE get_line_type(line, 0).kind = "Option" -> "Option"
      [] get_line_type(line, 0).kind = "Comment" -> "Comment"
      [] get_line_type(line, 0).kind = "Indent" -> "Indented"
      [] OTHER -> IF line[3] \in {"*", "!"} THEN "Transaction"
                  ELSE IF KeywordIs(line, "commodity") THEN "Commodity"
                  ELSE IF KeywordIs(line, "price") THEN "Price"
                  ELSE IF KeywordIs(line, "open") THEN "Account"
                  ELSE "OtherEntry"
OwnDate(line) ==
    IF get_line_type(line, 0).kind = "Date" THEN get_line_type(line, 0).date
    ELSE 19900101
MakesEntry(line) ==
    \/ get_line_type(line, 0).kind \in {"Option", "Comment", "Indent"}
    \/ /\ get_line_type(line, 0).kind = "Date"
       /\ Len(line) >= 3 /\ line[2] = " " /\ line[3] \in WordTokens \cup {"*", "!"}

(* C4: when a line makes an entry while the list ends with a Comment       *)
(* entry, that entry leaves the list and the new entry is its content,     *)
(* "\n", the line, with the kind and date the line has by itself; a        *)
(* transaction line then gives one Transaction entry with that content;    *)
(* and a comment line that ends the file ends the list as a Comment entry. *)
C4_CommentAbsorbed ==
    [][/\ (LoopStep /\ entries # <<>> /\ Last(entries).entry_type = "Comment"
              /\ MakesEntry(lines[i + 1])) =>
            LET line == lines[i + 1]
                joined == Last(entries).content \o <<NL>> \o line
            IN  /\ entry' = [content |-> joined, date |-> OwnDate(line),
                             entry_type |-> OwnKind(line)]
                /\ (pc' # "failed" /\ OwnKind(line) # "Indented") =>
                       entries' = Append(Front(entries), entry')
                /\ (pc' # "failed" /\ OwnKind(line) = "Indented") =>
                       /\ Len(entries') = Len(entries) - 1
                       /\ Front(entries') = Front(Front(entries))
                       /\ Last(entries').content
                            = entries[Len(entries) - 1].content \o <<NL>> \o joined
                /\ OwnKind(line) = "Transaction" =>
                       /\ pc' = "find_entries"
                       /\ Last(entries') = [content |-> joined, date |-> OwnDate(line),
                                            entry_type |-> "Transaction"]
       /\ (LoopStep /\ pc' = "find_entries" /\ i' = Len(lines)
              /\ Class(i') = "Comment") =>
            /\ Last(entries').entry_type = "Comment"
            /\ Last(ContentLines(Last(entries').content)) = lines[i']
    ]_vars

C4_Witness ==
    /\ pc = "find_entries"
    /\ lines = <<OptionLine, CommentLine, TxnLate>>
    /\ i = 3
    /\ entries = <<Entry(OptionLine, 19900101, "Option"),
                   Entry(CommentLine \o <<NL>> \o TxnLate, 20210102, "Transaction")>>
    /\ entry = entries[2]

(* the block that starts with the directive line p and goes on with the    *)
(* indented lines p+1..i, all of the lines read so far after p             *)
DirectiveBlock(p) ==
    /\ p > args.skipn
    /\ p < i
    /\ Class(p) = "Date"
    /\ MakesEntry(lines[p])
    /\ OwnKind(lines[p]) \in {"Transaction", "Commodity"}
    /\ \A j \in (p + 1)..i : Class(j) = "Indent"

RECURSIVE JoinNL(_)
JoinNL(ls) ==
    IF Len(ls) = 1 THEN ls[1] ELSE JoinNL(Front(ls)) \o <<NL>> \o Last(ls)

(* the comment lines a directive at line p takes in: those before it, back *)
(* to the last line that is neither Comment nor dropped                    *)
RECURSIVE CommentsBefore(_)
CommentsBefore(p) ==
    IF p - 1 <= args.skipn THEN <<>>
    ELSE IF Class(p - 1) = "Comment" THEN Append(CommentsBefore(p - 1), lines[p - 1])
    ELSE IF Class(p - 1) \in {"Section", "Empty"} THEN CommentsBefore(p - 1)
    ELSE <<>>

(* C3 as claimed: the block is one entry whose content is the directive    *)
(* line and the indented lines joined by "\n", with the directive's kind   *)
(* and date, and no other entry holds a line of it.                        *)
C3_AsClaimed ==
    pc = "find_entries" =>
        \A p \in 1..Len(lines) :
            DirectiveBlock(p) =>
                /\ Last(entries) = [content |-> JoinNL(SubSeq(lines, p, i)),
                                    date |-> OwnDate(lines[p]),
                                    entry_type |-> OwnKind(lines[p])]
                /\ Flatten(Front(entries)) = KeptLines(p - 1)

(* C3 amended: the same, with the comment lines the directive took in      *)
(* standing before the directive line in the content.                      *)
C3_BlockIsOneEntry ==
    pc = "find_entries" =>
        \A p \in 1..Len(lines) :
            DirectiveBlock(p) =>
                LET block == CommentsBefore(p) \o SubSeq(lines, p, i) IN
                /\ Last(entries) = [content |-> JoinNL(block),
                                    date |-> OwnDate(lines[p]),
                                    entry_type |-> OwnKind(lines[p])]
                /\ Flatten(Front(entries)) \o block = KeptLines(i)
                /\ \A k \in 1..Len(entries) : entries[k].entry_type # "Indented"

C3_Witness ==
    /\ pc = "find_entries"
    /\ lines = <<CommentLine, CommodityLine, IndentLine>>
    /\ i = 3
    /\ entries = <<Entry(CommentLine \o <<NL>> \o CommodityLine \o <<NL>> \o IndentLine,
                         20210101, "Commodity")>>

(* the section name test_get_section_variant pairs with a kind *)
SectionOf(kind) ==
    CASE kind = "Header" -> "Header"
      [] kind = "Option" -> "Options"
      [] kind = "Account" -> "Accounts"
      [] kind = "Commodity" -> "Commodities"
      [] kind = "OtherEntry" -> "Other Entries"
      [] kind = "Price" -> "Prices"
      [] kind = "Transaction" -> "Transactions"

HeadingsBefore(es, k) == {h \in 1..(k - 1) : es[h].entry_type = "Section"}
Latest(S) == CHOOSE h \in S : \A g \in S : g <= h

(* entry k of the sorted list stands in the section of its kind *)
InOwnSection(es, k) ==
    LET hs == HeadingsBefore(es, k) IN
    IF es[k].entry_type = "Header" THEN hs = {}
    ELSE /\ hs # {}
         /\ SectionOf(es[k].entry_type) \in Range(es[Latest(hs)].content)
         /\ Cardinality(hs) = SectionIndex(es[k].entry_type) - 1

(* C2: when find_entries has returned the list and sort_entries sorts it,  *)
(* every entry of the list but a Comment entry is in the result as often   *)
(* as in the list, in the section of its kind; the result holds nothing    *)
(* else but headings; a Comment entry is missing from the result and can   *)
(* only be the last entry of the list.                                     *)
C2_EveryEntryOnceInItsSection ==
    [][(pc = "find_entries" /\ pc' = "write_ledger_file") =>
        /\ \A e \in Range(entries) :
              e.entry_type # "Comment" => Count(e, entries') = Count(e, entries)
        /\ \A k \in 1..Len(entries') :
              entries'[k].entry_type # "Section" =>
                  /\ entries'[k] \in Range(entries)
                  /\ InOwnSection(entries', k)
        /\ \A k \in 1..Len(entries) :
              entries[k].entry_type = "Comment" =>
                  k = Len(entries) /\ entries[k] \notin Range(entries')
    ]_vars

C2_Witness ==
    /\ pc = "write_ledger_file"
    /\ args.skipn = 1
    /\ lines = <<BadLine, PriceLine, CommentLine>>
    /\ Len(entries) = 8

(* main run again, with skip count 0, on the file the first run wrote, and *)
(* writing to the same destination                                         *)
SecondRun(files, path, spaces) ==
    LET found == find_entries(SplitLines(files[path].data), 0)
        sorted == sort_entries(found.entries)
    IN  [ok |-> found.ok /\ sorted.ok,
         data |-> write_ledger_file(files, sorted.entries, path, spaces)[path].data]

(* C6: a run with skip count 0 that succeeds writes a file on which a      *)
(* second run with skip count 0 succeeds and writes the same file.         *)
C6_Idempotent ==
    (pc = "done" /\ args.skipn = 0) =>
        LET second == SecondRun(fs, args.out, args.spaces) IN
        second.ok /\ second.data = fs[args.out].data

C6_Witness ==
    /\ pc = "done"
    /\ args.skipn = 0
    /\ args.spaces
    /\ lines = <<TxnLate, CommentLine, TxnEarly>>
    /\ entries[Len(entries)].content = TxnLate

(* C10 as claimed: the destination changes only in the write, after        *)
(* find_entries and sort_entries have returned; a failed run leaves it as  *)
(* it was.                                                                 *)
C10_AsClaimed ==
    [][fs'[args.out] # fs[args.out] => pc = "write_ledger_file"]_vars

(* C10 amended: the same for every destination but the backup path         *)
(* <stem>_backup.<ext> of the source, which main overwrites with a copy of *)
(* the source before find_entries runs.                                    *)
C10_WriteOnlyAfterSort ==
    [][(fs'[args.out] # fs[args.out]
          /\ args.out # [stem |-> args.file.stem \o <<"_backup">>,
                         ext |-> args.file.ext])
       => pc = "write_ledger_file"]_vars

C10_Witness ==
    /\ pc = "failed"
    /\ args.out = SrcPath
    /\ i = 3
    /\ err.kind = "MisplacedIndent"
    /\ fs[args.out] = File(JoinLines(lines))

====
